---- MODULE Spec2Model ----
(***************************************************************************)
(* IICP/SYNAPSE protocol integrity analysis and performance simulation.    *)
(*                                                                         *)
(* ProtocolIntegrityAnalyzer: the three table checks, the integrity score  *)
(* and the issue log.  IICPNeuralNetworkSimulator: population setup, the   *)
(* scoring function, the message simulation, the large-scale run and the   *)
(* build-pipeline run.                                                     *)
(*                                                                         *)
(* Real numbers are fixed-point integers; the unit is part of each name's  *)
(* comment (milli = 1/1000, micro = 1/1000000, centi-ms = 1/100 ms).       *)
(***************************************************************************)
EXTENDS Integers, Sequences, FiniteSets, TLC

VARIABLES
    \* ProtocolIntegrityAnalyzer: the tables the checks read ...
    expected_opcodes,       \* the opcode table, a sequence of opcode values
    iicp_headers,           \* the header names, each a sequence of characters
    versions,               \* [min_version, max_version, current_version]
    \* ... its fields ...
    issues,                 \* self.issues
    validation_results,     \* self.validation_results
    \* ... and what its operations returned last
    message_consistency,
    header_consistency,
    version_compatibility,
    integrity_score,        \* milli-percent, -1 before the first call
    calls,                  \* number of analyzer operations performed
    \* IICPNeuralNetworkSimulator: its fields
    num_agents, num_routers, regions,
    agents, routers, metrics_history, simulation_time, nn_weights,
    \* the states of the two process-wide generators, random and numpy.random
    rng, nprng,
    \* the running operation
    pc,                     \* "idle", "large", "build", "quick", "nnsim", "done",
                            \* "faulted"
    run,                    \* the locals of the running operation; stage_outcomes
                            \* is the history of the stage outcomes of its builds
    sent,                   \* the results of the message simulations of the last step
    metrics,                \* the record the last completed run returned
    fault,                  \* the uncaught exception, "none" while there is none
    ops,                    \* number of operations started
    \* a second execution of the simulator, for reproducibility
    twin

analyzerVars == <<expected_opcodes, iicp_headers, versions, issues,
                  validation_results, message_consistency, header_consistency,
                  version_compatibility, integrity_score, calls>>

simVars == <<num_agents, num_routers, regions, agents, routers, metrics_history,
             simulation_time, nn_weights>>

procVars == <<rng, nprng, pc, run, sent, metrics, fault, ops>>

vars == <<analyzerVars, simVars, procVars, twin>>

----------------------------------------------------------------------------
(* Bounds of the model *)

\* analyzer operations performed in one behaviour
MaxCalls == 2

\* population sizes 0 .. MaxAgents
MaxAgents == 3

\* number of routers of the simulated network
NumRouters == 1

\* initial states 0 .. MaxSeed of random, 0 .. MaxNpSeed of numpy.random
MaxSeed == 1
MaxNpSeed == 0

\* the total message target of a large-scale run (900000 in the code, line 373)
TargetTotal == 4

\* the trials of a build-pipeline run (1000 in the code, lines 435 and 114)
BuildTrials == 2

\* the rounds of quick_validation.neural_network_simulation (simulation_rounds,
\* 1000 in the code)
SimulationRounds == 4

\* operations started in one behaviour
MaxOps == 2

----------------------------------------------------------------------------
(* Helpers over sequences *)

Range(s) == {s[i] : i \in DOMAIN s}

RECURSIVE SelectSeq2(_, _)
\* the elements of s that are not in the set keep, in order, each as an
\* out-of-range issue
SelectSeq2(s, keep) ==
    IF s = <<>> THEN <<>>
    ELSE (IF Head(s) \in keep THEN <<>>
          ELSE <<[kind |-> "out_of_range", opcode |-> Head(s)]>>)
         \o SelectSeq2(Tail(s), keep)

----------------------------------------------------------------------------
(* MessageType and the hardcoded tables *)

\* class MessageType: INIT = 0x01 .. TELEMETRY = 0x0E, in declaration order
MessageType == <<1, 2, 3, 4, 5, 6, 7, 8, 9, 10, 11, 12, 13, 14>>

\* expected_opcodes as written: MessageType.X: X's value, 14 entries
CanonicalOpcodes == <<1, 2, 3, 4, 5, 6, 7, 8, 9, 10, 11, 12, 13, 14>>

\* the valid opcode range of the checks, 0x01 .. 0x0E
MinOpcode == 1
MaxOpcode == 14

\* set(range(0x01, 0x0F))
expected_range == MinOpcode .. MaxOpcode

\* the reserved header prefix "X-IICP-"
HeaderPrefix == <<"X", "-", "I", "I", "C", "P", "-">>

\* iicp_headers as written (nine names)
CanonicalHeaders ==
    << HeaderPrefix \o <<"T", "T", "L">>,
       HeaderPrefix \o <<"H", "a", "s", "h">>,
       HeaderPrefix \o <<"L", "o", "c", "k">>,
       HeaderPrefix \o <<"T", "r", "a", "n", "s", "p", "o", "r", "t", "-", "H", "i", "n", "t">>,
       HeaderPrefix \o <<"T", "r", "a", "c", "e", "-", "H", "a", "s", "h">>,
       HeaderPrefix \o <<"A", "u", "t", "h", "-", "M", "e", "t", "h", "o", "d">>,
       HeaderPrefix \o <<"R", "e", "t", "r", "y", "-", "P", "o", "l", "i", "c", "y">>,
       HeaderPrefix \o <<"R", "o", "u", "t", "i", "n", "g", "-", "H", "i", "n", "t">>,
       HeaderPrefix \o <<"S", "c", "h", "e", "d", "u", "l", "i", "n", "g", "-", "H", "i", "n", "t">> >>

\* min_version = 0x09, max_version = 0x0E, current_version = 0x0E
CanonicalVersions == [min_version |-> 9, max_version |-> 14, current_version |-> 14]

----------------------------------------------------------------------------
(* ProtocolIntegrityAnalyzer *)

\* str.startswith
startswith(s, prefix) ==
    /\ Len(s) >= Len(prefix)
    /\ SubSeq(s, 1, Len(prefix)) = prefix

\* faulty variant: the list is turned into a set before its length is taken
opcode_uniqueness_set_vs_set(opcodes) ==
    Cardinality(Range(opcodes)) = Cardinality(Range(opcodes))

\* the uniqueness check: len(opcodes) == len(set(opcodes))
opcode_uniqueness(opcodes) == Len(opcodes) = Cardinality(Range(opcodes))

\* faulty variant: the upper end of the range is excluded
opcode_range_validity_exclusive(opcodes) ==
    \A i \in DOMAIN opcodes : MinOpcode <= opcodes[i] /\ opcodes[i] < MaxOpcode

\* the range check: every opcode within 0x01 .. 0x0E
opcode_range_validity(opcodes) ==
    \A i \in DOMAIN opcodes : MinOpcode <= opcodes[i] /\ opcodes[i] <= MaxOpcode

\* missing = expected_range - actual_opcodes
missing_opcodes(opcodes) == expected_range \ Range(opcodes)

\* faulty variant: completeness as set equality, without the test for missing values
opcode_completeness_equality(opcodes) == Range(opcodes) = expected_range

\* the completeness check: stays True unless the value set differs from the
\* expected range and some value of the range is missing
opcode_completeness(opcodes) ==
    ~ (Range(opcodes) # expected_range /\ missing_opcodes(opcodes) # {})

\* analyze_message_consistency: the returned map and the issues it appends
analyze_message_consistency(opcodes) ==
    [ result |->
        [ opcode_uniqueness |-> opcode_uniqueness(opcodes),
          range_validity    |-> opcode_range_validity(opcodes),
          completeness      |-> opcode_completeness(opcodes) ],
      issues |->
        (IF opcode_uniqueness(opcodes) THEN <<>> ELSE <<[kind |-> "duplicate"]>>)
        \o SelectSeq2(opcodes, expected_range)
        \o (IF opcode_completeness(opcodes) THEN <<>>
            ELSE <<[kind |-> "missing", opcodes |-> missing_opcodes(opcodes)]>>) ]

RECURSIVE header_issues(_)
\* one issue per header that does not start with the prefix, in order
header_issues(headers) ==
    IF headers = <<>> THEN <<>>
    ELSE (IF startswith(Head(headers), HeaderPrefix) THEN <<>>
          ELSE <<[kind |-> "naming", header |-> Head(headers)]>>)
         \o header_issues(Tail(headers))

\* faulty variant: a header without the prefix also fails required_coverage
analyze_header_field_consistency_coverage(headers) ==
    [ result |->
        [ naming_convention |-> \A i \in DOMAIN headers : startswith(headers[i], HeaderPrefix),
          type_consistency  |-> TRUE,
          required_coverage |-> \A i \in DOMAIN headers : startswith(headers[i], HeaderPrefix) ],
      issues |-> header_issues(headers) ]

\* analyze_header_field_consistency
analyze_header_field_consistency(headers) ==
    [ result |->
        [ naming_convention |-> \A i \in DOMAIN headers : startswith(headers[i], HeaderPrefix),
          type_consistency  |-> TRUE,
          required_coverage |-> TRUE ],
      issues |-> header_issues(headers) ]

\* analyze_version_compatibility
analyze_version_compatibility(v) ==
    LET bad_range   == v.min_version >= v.max_version
        bad_current == v.current_version < v.min_version
                       \/ v.current_version > v.max_version
    IN  [ result |->
            [ range_validity         |-> ~ bad_range /\ ~ bad_current,
              backward_compatibility |-> TRUE,
              forward_compatibility  |-> TRUE ],
          issues |->
            (IF bad_range THEN <<[kind |-> "version_range"]>> ELSE <<>>)
            \o (IF bad_current THEN <<[kind |-> "current_version"]>> ELSE <<>>) ]

\* sum(d.values()) of a map of booleans
sum_values(d) == Cardinality({k \in DOMAIN d : d[k]})

\* len(d)
len_map(d) == Cardinality(DOMAIN d)

\* (passed_checks / total_checks) * 100, in milli-percent
score_of(passed_checks, total_checks) ==
    (passed_checks * 100 * 1000) \div total_checks

\* calculate_integrity_score: the three analyses, then the score
calculate_integrity_score(opcodes, headers, v) ==
    LET m == analyze_message_consistency(opcodes)
        h == analyze_header_field_consistency(headers)
        c == analyze_version_compatibility(v)
        total_checks  == len_map(m.result) + len_map(h.result) + len_map(c.result)
        passed_checks == sum_values(m.result) + sum_values(h.result)
                         + sum_values(c.result)
    IN  [ message_consistency   |-> m.result,
          header_consistency    |-> h.result,
          version_compatibility |-> c.result,
          total_checks    |-> total_checks,
          passed_checks   |-> passed_checks,
          integrity_score |-> score_of(passed_checks, total_checks),
          issues |-> m.issues \o h.issues \o c.issues ]

----------------------------------------------------------------------------
(* The tables the analyzer is run on: the hardcoded ones and their edits *)

\* opcode values an edit may write: below, inside and above the range
EditValues == 0 .. 15

\* one entry's value replaced, the last entry dropped, or one entry added
OpcodeTables ==
    {CanonicalOpcodes}
    \cup {[CanonicalOpcodes EXCEPT ![i] = v] : i \in DOMAIN CanonicalOpcodes, v \in EditValues}
    \cup {SubSeq(CanonicalOpcodes, 1, Len(CanonicalOpcodes) - 1)}
    \cup {Append(CanonicalOpcodes, v) : v \in EditValues}

\* header names that do not carry the prefix
BadHeaders ==
    { <<"I", "I", "C", "P", "-", "T", "T", "L">>,
      <<"x", "-", "i", "i", "c", "p", "-", "t", "t", "l">>,
      <<"X", "-">> }

HeaderTables ==
    {CanonicalHeaders}
    \cup {[CanonicalHeaders EXCEPT ![1] = b] : b \in BadHeaders}

VersionTables ==
    [min_version : {9, 14}, max_version : {9, 14}, current_version : {8, 14, 15}]

\* the number of the three tables that differ from the hardcoded ones
edited_tables(t) ==
    (IF t.opcodes = CanonicalOpcodes THEN 0 ELSE 1)
    + (IF t.headers = CanonicalHeaders THEN 0 ELSE 1)
    + (IF t.versions = CanonicalVersions THEN 0 ELSE 1)

\* opcode tables that fail one, two or all three opcode checks
BrokenOpcodeTables ==
    { [CanonicalOpcodes EXCEPT ![2] = 1],
      [CanonicalOpcodes EXCEPT ![14] = 15],
      [CanonicalOpcodes EXCEPT ![1] = 0, ![2] = 0] }

\* the table sets the analyzer is run on: the hardcoded tables, every edit of
\* one of the three, and the tables with all three edited
Tables ==
    {t \in [opcodes : OpcodeTables, headers : HeaderTables, versions : VersionTables] :
        edited_tables(t) <= 1}
    \cup [opcodes : BrokenOpcodeTables,
          headers : HeaderTables \ {CanonicalHeaders},
          versions : VersionTables \ {CanonicalVersions}]

----------------------------------------------------------------------------
(* The analyzer as a state machine *)

NoResult == [none |-> TRUE]

\* ProtocolIntegrityAnalyzer.__init__ on some tables
AnalyzerOnTables ==
    /\ \E t \in Tables :
          /\ expected_opcodes = t.opcodes
          /\ iicp_headers = t.headers
          /\ versions = t.versions
    /\ issues = <<>>
    /\ validation_results = <<>>
    /\ message_consistency = NoResult
    /\ header_consistency = NoResult
    /\ version_compatibility = NoResult
    /\ integrity_score = -1
    /\ calls = 0

\* a call of analyze_message_consistency
AnalyzeMessageConsistency ==
    /\ calls < MaxCalls
    /\ LET r == analyze_message_consistency(expected_opcodes)
       IN  /\ message_consistency' = r.result
           /\ issues' = issues \o r.issues
    /\ calls' = calls + 1
    /\ UNCHANGED <<expected_opcodes, iicp_headers, versions, validation_results,
                   header_consistency, version_compatibility, integrity_score,
                   simVars, procVars, twin>>

\* a call of analyze_header_field_consistency
AnalyzeHeaderFieldConsistency ==
    /\ calls < MaxCalls
    /\ LET r == analyze_header_field_consistency(iicp_headers)
       IN  /\ header_consistency' = r.result
           /\ issues' = issues \o r.issues
    /\ calls' = calls + 1
    /\ UNCHANGED <<expected_opcodes, iicp_headers, versions, validation_results,
                   message_consistency, version_compatibility, integrity_score,
                   simVars, procVars, twin>>

\* a call of analyze_version_compatibility
AnalyzeVersionCompatibility ==
    /\ calls < MaxCalls
    /\ LET r == analyze_version_compatibility(versions)
       IN  /\ version_compatibility' = r.result
           /\ issues' = issues \o r.issues
    /\ calls' = calls + 1
    /\ UNCHANGED <<expected_opcodes, iicp_headers, versions, validation_results,
                   message_consistency, header_consistency, integrity_score,
                   simVars, procVars, twin>>

\* faulty variant: the score is computed on an emptied issue log
CalculateIntegrityScore_fresh_log ==
    /\ calls < MaxCalls
    /\ LET r == calculate_integrity_score(expected_opcodes, iicp_headers, versions)
       IN  /\ message_consistency' = r.message_consistency
           /\ header_consistency' = r.header_consistency
           /\ version_compatibility' = r.version_compatibility
           /\ integrity_score' = r.integrity_score
           /\ issues' = r.issues
    /\ calls' = calls + 1
    /\ UNCHANGED <<expected_opcodes, iicp_headers, versions, validation_results,
                   simVars, procVars, twin>>

\* a call of calculate_integrity_score
CalculateIntegrityScore ==
    /\ calls < MaxCalls
    /\ LET r == calculate_integrity_score(expected_opcodes, iicp_headers, versions)
       IN  /\ message_consistency' = r.message_consistency
           /\ header_consistency' = r.header_consistency
           /\ version_compatibility' = r.version_compatibility
           /\ integrity_score' = r.integrity_score
           /\ issues' = issues \o r.issues
    /\ calls' = calls + 1
    /\ UNCHANGED <<expected_opcodes, iicp_headers, versions, validation_results,
                   simVars, procVars, twin>>

AnalyzerNext ==
    \/ AnalyzeMessageConsistency
    \/ AnalyzeHeaderFieldConsistency
    \/ AnalyzeVersionCompatibility
    \/ CalculateIntegrityScore

\* no simulator has been built and no operation is running
NoRun == [kind |-> "none"]

NoMetrics == [none |-> TRUE]

NoTwin == [none |-> TRUE]

ProcessIdle ==
    /\ pc = "idle"
    /\ run = NoRun
    /\ sent = <<>>
    /\ metrics = NoMetrics
    /\ fault = "none"
    /\ ops = 0

SimulatorAbsent ==
    /\ num_agents = 0 /\ num_routers = 0 /\ regions = <<>>
    /\ agents = <<>> /\ routers = <<>> /\ metrics_history = <<>>
    /\ simulation_time = 0
    /\ nn_weights = [none |-> TRUE]
    /\ rng = 0 /\ nprng = 0
    /\ ProcessIdle
    /\ twin = NoTwin

\* an analyzer on one of the table sets, and no simulator
AnalyzerInit == AnalyzerOnTables /\ SimulatorAbsent

SpecAnalyzer == AnalyzerInit /\ [][AnalyzerNext]_vars

----------------------------------------------------------------------------
(* Numbers: min, max, floor division, sums *)

min(a, b) == IF a <= b THEN a ELSE b

max(a, b) == IF b > a THEN b ELSE a

\* Python's a // b for integers (floor division), b # 0
floordiv(a, b) ==
    IF b > 0
    THEN (IF a >= 0 THEN a \div b ELSE -((-a + b - 1) \div b))
    ELSE (IF a >= 0 THEN -((a + (-b) - 1) \div (-b)) ELSE (-a) \div (-b))

RECURSIVE SumSeq(_)
SumSeq(s) == IF s = <<>> THEN 0 ELSE Head(s) + SumSeq(Tail(s))

\* s without its element at position i
RemoveAt(s, i) == SubSeq(s, 1, i - 1) \o SubSeq(s, i + 1, Len(s))

RECURSIVE Ranked(_, _)
\* the k-th smallest element of s around the pivot p, given the elements
\* below p and the number of elements that are at most p
RankedAround(s, k, p, below, at_most) ==
    IF k <= Len(below) THEN Ranked(below, k)
    ELSE IF k <= at_most THEN p
    ELSE Ranked(SelectSeq(s, LAMBDA v : v > p), k - at_most)

\* sorted(s)[k - 1]: the k-th smallest element of s, counted with repetitions
Ranked(s, k) ==
    RankedAround(s, k, s[1], SelectSeq(s, LAMBDA v : v < s[1]),
                 Len(SelectSeq(s, LAMBDA v : v <= s[1])))

----------------------------------------------------------------------------
(* The pseudo-random sources.  `random` and `numpy.random` are two separate *)
(* generators, each a deterministic function of its state; a state is a    *)
(* number 0 .. RngModulus-1 and a draw moves to the next state and returns *)
(* it as the fraction state/RngModulus of [0, 1).                          *)

RngModulus == 100

\* the state of `random` after one draw
rng_next(x) == (21 * x + 7) % RngModulus

\* the state of `numpy.random` after one draw
nprng_next(x) == (41 * x + 3) % RngModulus

\* random.uniform(a, b) = a + (b - a) * random(), from the drawn state raw;
\* a, b and the result in the same unit
uniform(a, b, raw) == a + ((b - a) * raw) \div RngModulus

\* the index random.choice / random.randint pick among n values, 1-based
pick(n, raw) == 1 + (n * raw) \div RngModulus

\* a standard normal draw in tenths: the body of the distribution in
\* -2.5 .. 2.4, and one far draw in each tail
standard_normal(raw) ==
    IF raw = 0 THEN -120
    ELSE IF raw = RngModulus - 1 THEN 120
    ELSE floordiv(raw - 50, 2)

\* np.random.normal(loc, scale) from the drawn state raw, in the unit of
\* loc and scale
normal(loc, scale, raw) == loc + floordiv(scale * standard_normal(raw), 10)

----------------------------------------------------------------------------
(* QoSClass, TransportHint, intents *)

QoSClass == <<"realtime", "interactive", "batch">>

TransportHint == <<"quic", "qudag", "dual">>

\* intent_types of _initialize_agents
intent_types ==
    << "urn:iicp:intent:code:lint:v1.4.2",
       "urn:iicp:intent:doc:summarize:v1.0",
       "urn:iicp:intent:fraud:detect:v1.0",
       "urn:iicp:intent:build:rust:v2.1",
       "urn:iicp:intent:build:python:v3.2" >>

\* "build" in intent
is_build_intent(intent) ==
    intent \in {"urn:iicp:intent:build:rust:v2.1", "urn:iicp:intent:build:python:v3.2"}

----------------------------------------------------------------------------
(* IICPNeuralNetworkSimulator: construction *)

RECURSIVE normal_row(_, _, _)
\* n successive draws of normal(0, 0.1) in milli, and the state after them
normal_row(n, nr, acc) ==
    IF n = 0 THEN [row |-> acc, nprng |-> nr]
    ELSE normal_row(n - 1, nprng_next(nr), Append(acc, normal(0, 100, nprng_next(nr))))

RECURSIVE normal_matrix(_, _, _, _)
\* np.random.normal(0, 0.1, (rows, cols)): filled row by row
normal_matrix(rows, cols, nr, acc) ==
    IF rows = 0 THEN [matrix |-> acc, nprng |-> nr]
    ELSE LET r == normal_row(cols, nr, <<>>)
         IN  normal_matrix(rows - 1, cols, r.nprng, Append(acc, r.row))

\* self.nn_weights of __init__
initialize_weights(nr) ==
    LET a == normal_matrix(10, 5, nr, <<>>)
        b == normal_matrix(8, 4, a.nprng, <<>>)
        c == normal_matrix(6, 3, b.nprng, <<>>)
    IN  [ nn_weights |-> [ latency_prediction |-> a.matrix,
                           load_balancing     |-> b.matrix,
                           failure_prediction |-> c.matrix ],
          nprng |-> c.nprng ]

RECURSIVE sample(_, _, _, _)
\* random.sample(population, k): k picks without replacement
sample(population, k, r, acc) ==
    IF k = 0 THEN [picked |-> acc, rng |-> r]
    ELSE LET r1 == rng_next(r)
             i  == pick(Len(population), r1)
         IN  sample(RemoveAt(population, i), k - 1, r1, Append(acc, population[i]))

\* faulty variant: the wall clock feeds the state of `random`
new_agent_clocked(i, rgns, r, now) ==
    LET r1 == rng_next(r)                    \* random.choice(self.regions)
        region == rgns[pick(Len(rgns), r1)]
        r2 == rng_next(r1)                   \* random.randint(1, 3)
        k  == pick(3, r2)
        s  == sample(intent_types, k, r2, <<>>)
        r3 == rng_next(s.rng)                \* random.choice(list(QoSClass))
        r4 == rng_next(r3)                   \* random.choice(list(TransportHint))
        r5 == rng_next(r4)                   \* random.uniform(0.1, 0.8)
    IN  [ agent |-> [ agent_id |-> <<"llm://agent-", region, i>>,
                      region |-> region,
                      supported_intents |-> s.picked,
                      performance_class |-> QoSClass[pick(3, r3)],
                      transport_pref |-> TransportHint[pick(3, r4)],
                      load_factor |-> uniform(100, 800, r5),        \* milli
                      last_heartbeat |-> now ],
          rng |-> (r5 + now) % RngModulus ]

\* one iteration of _initialize_agents: agent i, and the state after its draws
new_agent(i, rgns, r, now) ==
    LET r1 == rng_next(r)                    \* random.choice(self.regions)
        region == rgns[pick(Len(rgns), r1)]
        r2 == rng_next(r1)                   \* random.randint(1, 3)
        k  == pick(3, r2)
        s  == sample(intent_types, k, r2, <<>>)
        r3 == rng_next(s.rng)                \* random.choice(list(QoSClass))
        r4 == rng_next(r3)                   \* random.choice(list(TransportHint))
        r5 == rng_next(r4)                   \* random.uniform(0.1, 0.8)
    IN  [ agent |-> [ agent_id |-> <<"llm://agent-", region, i>>,
                      region |-> region,
                      supported_intents |-> s.picked,
                      performance_class |-> QoSClass[pick(3, r3)],
                      transport_pref |-> TransportHint[pick(3, r4)],
                      load_factor |-> uniform(100, 800, r5),        \* milli
                      last_heartbeat |-> now ],
          rng |-> r5 ]

RECURSIVE initialize_agents(_, _, _, _, _, _)
\* _initialize_agents: agents i .. n-1 appended to acc
initialize_agents(i, n, rgns, r, now, acc) ==
    IF i >= n THEN [agents |-> acc, rng |-> r]
    ELSE LET a == new_agent(i, rgns, r, now)
         IN  initialize_agents(i + 1, n, rgns, a.rng, now, Append(acc, a.agent))

RECURSIVE initialize_routers(_, _, _, _, _)
\* _initialize_routers
initialize_routers(i, n, rgns, r, acc) ==
    IF i >= n THEN [routers |-> acc, rng |-> r]
    ELSE LET r1 == rng_next(r)               \* random.choice(self.regions)
             r2 == rng_next(r1)              \* random.uniform(0.2, 0.6)
             router == [ router_id |-> <<"router-", i>>,
                         region |-> rgns[pick(Len(rgns), r1)],
                         queue_depth |-> 0,
                         processed_messages |-> 0,
                         error_count |-> 0,
                         cpu_utilization |-> uniform(200, 600, r2) ]   \* milli
         IN  initialize_routers(i + 1, n, rgns, r2, Append(acc, router))

\* IICPNeuralNetworkSimulator.__init__: the weights, then the agents, then the
\* routers
construct(n_agents, n_routers, rgns, r, nr, now) ==
    LET w  == initialize_weights(nr)
        ag == initialize_agents(0, n_agents, rgns, r, now, <<>>)
        ro == initialize_routers(0, n_routers, rgns, ag.rng, <<>>)
    IN  [ agents |-> ag.agents, routers |-> ro.routers, nn_weights |-> w.nn_weights,
          rng |-> ro.rng, nprng |-> w.nprng ]

----------------------------------------------------------------------------
(* The scoring function and the message simulation *)

relu(x) == max(0, x)

\* np.dot(input_vector, weights)[j]: milli * milli = micro
dot(input_vector, weights, j) ==
    SumSeq([i \in 1 .. Len(input_vector) |-> input_vector[i] * weights[i][j]])

\* _neural_network_predict: features and weights in milli, the result in micro
neural_network_predict(input_vector, weights) ==
    LET hidden == [j \in 1 .. Len(weights[1]) |-> relu(dot(input_vector, weights, j))]
        output == SumSeq(hidden) \div Len(hidden)           \* np.mean(hidden)
    IN  max(1000, output)                                   \* max(0.001, output)

\* {"realtime": 1.0, "interactive": 0.6, "batch": 0.3}, milli
qos_priority(qos_class) ==
    CASE qos_class = "realtime" -> 1000
      [] qos_class = "interactive" -> 600
      [] qos_class = "batch" -> 300

\* the base latency {"realtime": 50, "interactive": 150, "batch": 500} ms, in centi-ms
base_latency(qos_class) ==
    CASE qos_class = "realtime" -> 5000
      [] qos_class = "interactive" -> 15000
      [] qos_class = "batch" -> 50000

\* the floor of a returned latency, 10.0 ms in centi-ms
LatencyFloor == 1000

\* faulty variant: the sum is returned as it is
floored_none(x) == x

\* return max(10.0, final_latency + noise)
floored(x) == max(LatencyFloor, x)

RECURSIVE draw_states(_, _)
\* the states of `random` after each of k successive draws from state r
draw_states(r, k) ==
    IF k = 0 THEN <<>> ELSE <<rng_next(r)>> \o draw_states(rng_next(r), k - 1)

\* cross_region = 1.0 if source_region != dest_region else 0.0, milli
cross_region_of(source_region, dest_region) ==
    IF source_region # dest_region THEN 1000 ELSE 0

\* input_features of _calculate_message_latency, milli; d holds the states of
\* `random` after its five draws, in the order the code makes them
input_features(cross_region, qos_class, message_size_kb, sim_time, n_agents, d) ==
    << cross_region,
       qos_priority(qos_class),
       uniform(300, 900, d[1]),                 \* network_load
       min(message_size_kb \div 100, 1000),     \* min(message_size_kb / 100.0, 1.0)
       uniform(100, 900, d[2]),                 \* network congestion
       uniform(800, 1000, d[3]),                \* router efficiency
       uniform(0, 300, d[4]),                   \* error rate
       sim_time,                                \* self.simulation_time / 1000.0
       (n_agents * 1000) \div 25000,            \* len(self.agents) / 25000.0
       uniform(500, 1000, d[5]) >>              \* random network factor

\* the base latency with the cross-region penalty, base_latency *= uniform(2.0, 4.0)
penalized_base(cross_region, qos_class, raw) ==
    IF cross_region # 0
    THEN (base_latency(qos_class) * uniform(2000, 4000, raw)) \div 1000
    ELSE base_latency(qos_class)

\* final_latency = base_latency * (0.5 + predicted_latency * 2.0); base in
\* centi-ms, predicted_latency in micro
adjusted(base, predicted_latency) ==
    (base * (500 + 2 * (predicted_latency \div 1000))) \div 1000

\* noise = np.random.normal(0, final_latency * 0.1) and the floored sum
latency_with_noise(base, final_latency, r_after, n1) ==
    [ latency |-> floored(final_latency + normal(0, final_latency \div 10, n1)),
      final_latency |-> final_latency,
      noise |-> normal(0, final_latency \div 10, n1),
      base |-> base,
      rng |-> r_after, nprng |-> n1 ]

\* the latency from the base latency and the scoring output
latency_from(base, predicted_latency, r_after, n1) ==
    latency_with_noise(base, adjusted(base, predicted_latency), r_after, n1)

\* _calculate_message_latency.  message_size_kb in milli-KB, the weights in
\* milli, the time in seconds; r and nr are the states of the two generators.
\* The latency is in centi-ms.
calculate_message_latency(source_region, dest_region, message_size_kb, qos_class, w, sim_time, n_agents, r, nr) ==
    LET cross_region == cross_region_of(source_region, dest_region)
        d == draw_states(r, 6)
    IN  latency_from(
            penalized_base(cross_region, qos_class, d[6]),
            neural_network_predict(
                input_features(cross_region, qos_class, message_size_kb, sim_time,
                               n_agents, d),
                w),
            IF cross_region # 0 THEN d[6] ELSE d[5],
            nprng_next(nr))

\* faulty variant: the destination is chosen among all agents
others_unfiltered(ags, source_agent) == ags

\* the agents other than the source: [a for a in self.agents if a != source_agent]
others(ags, source_agent) == SelectSeq(ags, LAMBDA a : a # source_agent)

\* success = random.random() > failure_probability * 0.01, with the draw raw
\* in hundredths and the failure output in micro
succeeds(raw, failure_probability) == raw * 1000000 > failure_probability

\* failure_features of _simulate_message_processing, milli; raw is the state
\* of `random` after the draw of the network error rate
failure_features(latency, payload_size_kb, source_agent, dest_agent, raw, n_agents) ==
    << latency \div 100,                 \* latency / 1000.0
       payload_size_kb \div 100,         \* payload_size_kb / 100.0
       source_agent.load_factor,
       dest_agent.load_factor,
       uniform(0, 100, raw),
       (n_agents * 1000) \div 25000 >>

\* the returned pair and what the model observes of the call
message_result(source_agent, dest_agent, lat, failure_probability, r4) ==
    [ fault |-> "none",
      latency |-> lat.latency,
      success |-> succeeds(r4, failure_probability),
      source |-> source_agent,
      dest |-> dest_agent,
      qos_class |-> source_agent.performance_class,
      base |-> lat.base,
      final_latency |-> lat.final_latency,
      noise |-> lat.noise,
      failure_probability |-> failure_probability,
      rng |-> r4, nprng |-> lat.nprng ]

\* the failure prediction and the success draw, once the latency is known
message_after_latency(self, source_agent, dest_agent, lat, payload_size_kb) ==
    message_result(source_agent, dest_agent, lat,
        neural_network_predict(
            failure_features(lat.latency, payload_size_kb, source_agent, dest_agent,
                             rng_next(lat.rng), Len(self.agents)),
            self.nn_weights.failure_prediction),
        rng_next(rng_next(lat.rng)))

\* the latency of the message between the two chosen endpoints; r2 is the state
\* of `random` after the two choices
message_between(self, source_agent, dest_agent, r2, nr, payload_size_kb) ==
    message_after_latency(self, source_agent, dest_agent,
        calculate_message_latency(source_agent.region, dest_agent.region,
            payload_size_kb, source_agent.performance_class,
            self.nn_weights.latency_prediction, self.simulation_time,
            Len(self.agents), r2, nr),
        payload_size_kb)

\* faulty variant: with no other agent the message goes back to its source
message_from_guarded(self, source_agent, rest, r1, nr, payload_size_kb) ==
    message_between(self, source_agent,
        IF rest = <<>> THEN source_agent ELSE rest[pick(Len(rest), rng_next(r1))],
        rng_next(r1), nr, payload_size_kb)

\* dest_agent = random.choice(rest): IndexError when rest is empty
message_from(self, source_agent, rest, r1, nr, payload_size_kb) ==
    IF rest = <<>>
    THEN [fault |-> "IndexError", rng |-> r1, nprng |-> nr]
    ELSE message_between(self, source_agent, rest[pick(Len(rest), rng_next(r1))],
                         rng_next(r1), nr, payload_size_kb)

\* the choice of the destination among the agents other than the source
message_with_source(self, source_agent, r1, nr, payload_size_kb) ==
    message_from(self, source_agent, others(self.agents, source_agent), r1, nr,
                 payload_size_kb)

\* what _simulate_message_processing returns or raises.  self is the simulator
\* ([agents, routers, nn_weights, simulation_time]), r and nr the states of the
\* two generators.  fault = "IndexError" when an endpoint cannot be chosen;
\* otherwise the latency (centi-ms), the success flag and the two endpoints.
message_outcome(self, r, nr, message_type, payload_size_kb) ==
    IF self.agents = <<>>
    THEN [fault |-> "IndexError", rng |-> r, nprng |-> nr]
    ELSE message_with_source(self, self.agents[pick(Len(self.agents), rng_next(r))],
                             rng_next(r), nr, payload_size_kb)

\* faulty variant: every router counts the message
simulate_message_processing_counting(self, r, nr, message_type, payload_size_kb) ==
    [ outcome |-> message_outcome(self, r, nr, message_type, payload_size_kb),
      self |-> [self EXCEPT !.routers =
                  [i \in DOMAIN self.routers |->
                      [self.routers[i] EXCEPT !.processed_messages = @ + 1]]] ]

\* a call of _simulate_message_processing: what it returns or raises, and the
\* simulator after it (the method assigns to no field)
simulate_message_processing(self, r, nr, message_type, payload_size_kb) ==
    [ outcome |-> message_outcome(self, r, nr, message_type, payload_size_kb),
      self |-> self ]

----------------------------------------------------------------------------
(* Aggregates of a run *)

\* np.percentile(a, q), linear interpolation between the two nearest ranks
percentile(a, q) ==
    LET pos  == (Len(a) - 1) * q                \* hundredths of a rank, 0-based
        lo   == pos \div 100 + 1
        hi   == min(lo + 1, Len(a))
    IN  Ranked(a, lo) + ((Ranked(a, hi) - Ranked(a, lo)) * (pos % 100)) \div 100

\* np.median(a)
median(a) ==
    LET n == Len(a)
    IN  IF n % 2 = 1 THEN Ranked(a, (n + 1) \div 2)
        ELSE (Ranked(a, n \div 2) + Ranked(a, n \div 2 + 1)) \div 2

\* (part / whole) * 100 in milli-percent
percent(part, whole) == (part * 100 * 1000) \div whole

\* faulty variant: the per-second count rounded up
messages_per_second_ceil(duration_seconds) ==
    -floordiv(-TargetTotal, duration_seconds)

\* messages_per_second = 900000 // duration_seconds
messages_per_second(duration_seconds) == floordiv(TargetTotal, duration_seconds)

\* faulty variant: a build succeeds when one of its stages does
build_success_either(rust_success, python_success) == rust_success \/ python_success

\* build_success = rust_success and python_success
build_success(rust_success, python_success) == rust_success /\ python_success

----------------------------------------------------------------------------
(* The simulator as a state machine *)

\* the region list of a simulator
Regions == <<"us-east-1", "eu-west-1">>

\* message types and payload sizes (milli-KB) of a directly issued message
\* simulation
DirectTypes == {MessageType[5], MessageType[14]}

Payloads == {10000, 150000, 500000, 5000000}

\* wall-clock durations a run can take, in milliseconds
ElapsedChoices == {1, 250}

\* the simulator object, as the methods see it
Self ==
    [ agents |-> agents, routers |-> routers, nn_weights |-> nn_weights,
      simulation_time |-> simulation_time ]

\* IICPNeuralNetworkSimulator(num_agents, num_routers, regions) built at wall
\* clock time now, with the generators in states seed and npseed
Constructed(n, seed, npseed, now) ==
    LET c == construct(n, NumRouters, Regions, seed, npseed, now)
    IN  /\ num_agents = n
        /\ num_routers = NumRouters
        /\ regions = Regions
        /\ agents = c.agents
        /\ routers = c.routers
        /\ metrics_history = <<>>
        /\ simulation_time = 0
        /\ nn_weights = c.nn_weights
        /\ rng = c.rng
        /\ nprng = c.nprng

\* a fresh analyzer on the hardcoded tables
AnalyzerFresh ==
    /\ expected_opcodes = CanonicalOpcodes
    /\ iicp_headers = CanonicalHeaders
    /\ versions = CanonicalVersions
    /\ issues = <<>>
    /\ validation_results = <<>>
    /\ message_consistency = NoResult
    /\ header_consistency = NoResult
    /\ version_compatibility = NoResult
    /\ integrity_score = -1
    /\ calls = 0

Init ==
    /\ AnalyzerFresh
    /\ \E n \in 0 .. MaxAgents, seed \in 0 .. MaxSeed, npseed \in 0 .. MaxNpSeed :
          Constructed(n, seed, npseed, 0)
    /\ ProcessIdle
    /\ twin = NoTwin

\* an operation may start: none is running and the process has not crashed
MayStart == pc \in {"idle", "done"} /\ ops < MaxOps

\* the simulator and the generators after the call c of
\* _simulate_message_processing
AfterCall(c) ==
    /\ agents' = c.self.agents
    /\ routers' = c.self.routers
    /\ nn_weights' = c.self.nn_weights
    /\ simulation_time' = c.self.simulation_time
    /\ rng' = c.outcome.rng
    /\ nprng' = c.outcome.nprng

\* the caller of a direct call c: the result, or the uncaught exception
DirectCall(c) ==
    /\ AfterCall(c)
    /\ IF c.outcome.fault # "none"
       THEN pc' = "faulted" /\ fault' = c.outcome.fault /\ sent' = <<>>
       ELSE pc' = "done" /\ fault' = "none" /\ sent' = <<c.outcome>>

\* a direct call of _simulate_message_processing
SimulateMessage ==
    /\ MayStart
    /\ \E message_type \in DirectTypes, payload \in Payloads :
          /\ DirectCall(simulate_message_processing(Self, rng, nprng, message_type, payload))
          /\ run' = [kind |-> "message", message_type |-> message_type,
                     payload_size_kb |-> payload]
    /\ ops' = ops + 1
    /\ UNCHANGED <<analyzerVars, num_agents, num_routers, regions, metrics_history,
                   metrics, twin>>

\* run_large_scale_simulation(duration_seconds) up to the first iteration of
\* the loop over the seconds
StartLargeScale ==
    /\ MayStart
    /\ \E duration_seconds \in -1 .. TargetTotal + 1 :
          IF duration_seconds = 0
          THEN \* 900000 // 0
               /\ pc' = "faulted"
               /\ fault' = "ZeroDivisionError"
               /\ run' = [kind |-> "large", duration_seconds |-> duration_seconds,
                          total_messages |-> 0]
               /\ UNCHANGED simulation_time
          ELSE /\ pc' = "large"
               /\ fault' = "none"
               /\ run' = [ kind |-> "large",
                           duration_seconds |-> duration_seconds,
                           messages_per_second |-> messages_per_second(duration_seconds),
                           second |-> 0,
                           emitted |-> 0,
                           total_messages |-> 0,
                           total_latency |-> 0,
                           successful_messages |-> 0,
                           error_count |-> 0,
                           latencies |-> <<>> ]
               /\ simulation_time' = IF duration_seconds > 0 THEN 0 ELSE simulation_time
    /\ ops' = ops + 1
    /\ sent' = <<>>
    /\ UNCHANGED <<analyzerVars, num_agents, num_routers, regions, agents, routers,
                   metrics_history, nn_weights, rng, nprng, metrics, twin>>

\* faulty variant: every message is tallied as an error
LargeScaleTally_errors(c) ==
    /\ AfterCall(c)
    /\ IF c.outcome.fault # "none"
       THEN /\ pc' = "faulted"
            /\ fault' = c.outcome.fault
            /\ sent' = <<>>
            /\ run' = run
       ELSE /\ pc' = "large"
            /\ fault' = "none"
            /\ sent' = <<c.outcome>>
            /\ run' = [run EXCEPT
                   !.emitted = @ + 1,
                   !.total_messages = @ + 1,
                   !.total_latency = @ + c.outcome.latency,
                   !.latencies = Append(@, c.outcome.latency),
                   !.successful_messages = IF c.outcome.success THEN @ + 1 ELSE @,
                   !.error_count = @ + 1]

\* the body of the inner loop after the call c: the tallies, or the exception
LargeScaleTally(c) ==
    /\ AfterCall(c)
    /\ IF c.outcome.fault # "none"
       THEN /\ pc' = "faulted"
            /\ fault' = c.outcome.fault
            /\ sent' = <<>>
            /\ run' = run
       ELSE /\ pc' = "large"
            /\ fault' = "none"
            /\ sent' = <<c.outcome>>
            /\ run' = [run EXCEPT
                   !.emitted = @ + 1,
                   !.total_messages = @ + 1,
                   !.total_latency = @ + c.outcome.latency,
                   !.latencies = Append(@, c.outcome.latency),
                   !.successful_messages = IF c.outcome.success THEN @ + 1 ELSE @,
                   !.error_count = IF c.outcome.success THEN @ ELSE @ + 1]

\* one iteration of the inner loop: one message of the current second, with
\* message_type = random.choice(list(MessageType)) and
\* payload_size = random.uniform(1, 500)
LargeScaleMessage ==
    /\ pc = "large"
    /\ run.second < run.duration_seconds
    /\ run.emitted < run.messages_per_second
    /\ \E c \in { simulate_message_processing(Self, rng_next(rng_next(rng)), nprng,
                      MessageType[pick(Len(MessageType), rng_next(rng))],
                      uniform(1000, 500000, rng_next(rng_next(rng)))) } :
          LargeScaleTally(c)
    /\ UNCHANGED <<analyzerVars, num_agents, num_routers, regions, metrics_history,
                   metrics, ops, twin>>

\* the end of one second of the outer loop and the start of the next
LargeScaleNextSecond ==
    /\ pc = "large"
    /\ run.second < run.duration_seconds
    /\ run.emitted = run.messages_per_second
    /\ run' = [run EXCEPT !.second = @ + 1, !.emitted = 0]
    /\ simulation_time' = IF run.second + 1 < run.duration_seconds
                          THEN run.second + 1 ELSE simulation_time
    /\ sent' = <<>>
    /\ UNCHANGED <<analyzerVars, num_agents, num_routers, regions, agents, routers,
                   metrics_history, nn_weights, rng, nprng, pc, metrics, fault, ops, twin>>

\* faulty variant: a run without messages reports a success rate of 0
LargeScaleFinish_guarded ==
    /\ pc = "large"
    /\ run.second >= run.duration_seconds
    /\ sent' = <<>>
    /\ \E elapsed \in ElapsedChoices :
            LET r1 == rng_next(rng)                  \* random.uniform(65, 85)
            IN  /\ pc' = "done"
                /\ fault' = "none"
                /\ rng' = r1
                /\ metrics' =
                     [ latency_ms |-> IF run.latencies = <<>> THEN 0
                                     ELSE percentile(run.latencies, 95),
                       success_rate |-> IF run.total_messages = 0 THEN 0
                                       ELSE percent(run.successful_messages,
                                                    run.total_messages),
                       throughput_msg_per_sec |-> (run.total_messages * 1000) \div elapsed,
                       error_count |-> run.error_count,
                       cpu_utilization |-> uniform(65000, 85000, r1),
                       memory_usage_mb |-> 45000 ]
    /\ UNCHANGED <<analyzerVars, simVars, nprng, run, ops, twin>>

\* after the loop: the metrics, or the division by a total of zero
LargeScaleFinish ==
    /\ pc = "large"
    /\ run.second >= run.duration_seconds
    /\ sent' = <<>>
    /\ IF run.total_messages = 0
       THEN /\ pc' = "faulted"
            /\ fault' = "ZeroDivisionError"
            /\ UNCHANGED <<metrics, rng>>
       ELSE \E elapsed \in ElapsedChoices :
            LET r1 == rng_next(rng)                  \* random.uniform(65, 85)
            IN  /\ pc' = "done"
                /\ fault' = "none"
                /\ rng' = r1
                /\ metrics' =
                     [ latency_ms |-> percentile(run.latencies, 95),
                       success_rate |-> percent(run.successful_messages, run.total_messages),
                       throughput_msg_per_sec |-> (run.total_messages * 1000) \div elapsed,
                       error_count |-> run.error_count,
                       cpu_utilization |-> uniform(65000, 85000, r1),
                       memory_usage_mb |-> 45000 ]
    /\ UNCHANGED <<analyzerVars, simVars, nprng, run, ops, twin>>

\* the agents[:6000] that support a build intent, or all of agents[:6000] when
\* fewer than 1000 do
build_agents_of(ags) ==
    LET head == SubSeq(ags, 1, min(Len(ags), 6000))
        able == SelectSeq(head, LAMBDA a :
                    \E i \in DOMAIN a.supported_intents : is_build_intent(a.supported_intents[i]))
    IN  IF Len(able) < 1000 THEN head ELSE able

\* run_build_system_simulation up to the loop over the builds
StartBuildSystem ==
    /\ MayStart
    /\ pc' = "build"
    /\ fault' = "none"
    /\ run' = [ kind |-> "build",
                build_agents |-> build_agents_of(agents),
                total_builds |-> 0,
                successful_builds |-> 0,
                build_latencies |-> <<>>,
                stage_outcomes |-> <<>> ]
    /\ ops' = ops + 1
    /\ sent' = <<>>
    /\ UNCHANGED <<analyzerVars, simVars, rng, nprng, metrics, twin>>

\* the rest of one build after the two calls: the tallies, or the exception of
\* the second stage
BuildTally(rust, c2) ==
    /\ AfterCall(c2)
    /\ IF c2.outcome.fault # "none"
       THEN /\ pc' = "faulted"
            /\ fault' = c2.outcome.fault
            /\ sent' = <<rust>>
            /\ run' = run
       ELSE /\ pc' = "build"
            /\ fault' = "none"
            /\ sent' = <<rust, c2.outcome>>
            /\ run' = [run EXCEPT
                   !.total_builds = @ + 1,
                   !.build_latencies = Append(@, rust.latency + c2.outcome.latency),
                   !.stage_outcomes = Append(@, <<rust.success, c2.outcome.success>>),
                   !.successful_builds =
                       IF build_success(rust.success, c2.outcome.success)
                       THEN @ + 1 ELSE @]

\* one build after the first call c1: the exception of the first stage, or the
\* second stage with random.uniform(30, 150) KB
BuildSecondStage(c1) ==
    IF c1.outcome.fault # "none"
    THEN /\ AfterCall(c1)
         /\ pc' = "faulted"
         /\ fault' = c1.outcome.fault
         /\ sent' = <<>>
         /\ run' = run
    ELSE BuildTally(c1.outcome,
            simulate_message_processing(c1.self, rng_next(c1.outcome.rng),
                c1.outcome.nprng, MessageType[5],
                uniform(30000, 150000, rng_next(c1.outcome.rng))))

\* one build: the two stages, each a message simulation of type CALL, the
\* first with random.uniform(50, 200) KB
BuildTrial ==
    /\ pc = "build"
    /\ run.total_builds < BuildTrials
    /\ BuildSecondStage(
          simulate_message_processing(Self, rng_next(rng), nprng, MessageType[5],
              uniform(50000, 200000, rng_next(rng))))
    /\ UNCHANGED <<analyzerVars, num_agents, num_routers, regions, metrics_history,
                   metrics, ops, twin>>

\* after the loop over the builds: the metrics
BuildFinish ==
    /\ pc = "build"
    /\ run.total_builds >= BuildTrials
    /\ LET r1 == rng_next(rng)                       \* random.uniform(70, 85)
       IN  /\ rng' = r1
           /\ metrics' =
                [ latency_ms |-> median(run.build_latencies),
                  success_rate |-> percent(run.successful_builds, run.total_builds),
                  throughput_msg_per_sec |-> (run.total_builds * 1000) \div 300,
                  error_count |-> run.total_builds - run.successful_builds,
                  cpu_utilization |-> uniform(70000, 85000, r1),
                  memory_usage_mb |-> 45000 ]
    /\ pc' = "done"
    /\ sent' = <<>>
    /\ UNCHANGED <<analyzerVars, simVars, nprng, run, fault, ops, twin>>

\* quick_validation.build_system_simulation up to its loop
StartQuickBuild ==
    /\ MayStart
    /\ pc' = "quick"
    /\ fault' = "none"
    /\ run' = [ kind |-> "quick",
                total_builds |-> BuildTrials,
                build_id |-> 0,
                successful_builds |-> 0,
                build_latencies |-> <<>>,
                stage_outcomes |-> <<>> ]
    /\ ops' = ops + 1
    /\ sent' = <<>>
    /\ UNCHANGED <<analyzerVars, simVars, rng, nprng, metrics, twin>>

\* one build of quick_validation.build_system_simulation
QuickBuildTrial ==
    /\ pc = "quick"
    /\ run.build_id < run.total_builds
    /\ LET r1 == rng_next(rng)                       \* random.uniform(200, 1500)
           r2 == rng_next(r1)                        \* random.random() > 0.002
           r3 == rng_next(r2)                        \* random.uniform(100, 800)
           r4 == rng_next(r3)                        \* random.random() > 0.001
           rust_latency == uniform(20000, 150000, r1)
           rust_success == r2 * 1000 > 2 * RngModulus
           python_latency == uniform(10000, 80000, r3)
           python_success == r4 * 1000 > 1 * RngModulus
       IN  /\ rng' = r4
           /\ run' = [run EXCEPT
                  !.build_id = @ + 1,
                  !.build_latencies = Append(@, rust_latency + python_latency),
                  !.stage_outcomes = Append(@, <<rust_success, python_success>>),
                  !.successful_builds =
                      IF build_success(rust_success, python_success)
                      THEN @ + 1 ELSE @]
    /\ UNCHANGED <<analyzerVars, simVars, nprng, pc, sent, metrics, fault, ops, twin>>

\* after the loop of quick_validation.build_system_simulation: the result
QuickBuildFinish ==
    /\ pc = "quick"
    /\ run.build_id >= run.total_builds
    /\ metrics' =
         [ success_rate |-> percent(run.successful_builds, run.total_builds),
           median_latency_ms |-> median(run.build_latencies),
           error_count |-> run.total_builds - run.successful_builds ]
    /\ pc' = "done"
    /\ UNCHANGED <<analyzerVars, simVars, rng, nprng, run, sent, fault, ops, twin>>

\* the fields of a simulator built by the construction c
Built(n, c) ==
    /\ num_agents' = n
    /\ num_routers' = NumRouters
    /\ regions' = Regions
    /\ agents' = c.agents
    /\ routers' = c.routers
    /\ metrics_history' = <<>>
    /\ simulation_time' = 0
    /\ nn_weights' = c.nn_weights
    /\ rng' = c.rng
    /\ nprng' = c.nprng

\* build_sim = IICPNeuralNetworkSimulator(n, ...) of
\* create_performance_validation_report, built once the large-scale run of
\* large_sim has returned: the operations that follow are those of the new
\* simulator, whose generators continue from where the run left them
ConstructSimulator ==
    /\ MayStart
    /\ pc = "done"
    /\ run.kind = "large"
    /\ \E n \in 0 .. MaxAgents :
          \E c \in { construct(n, NumRouters, Regions, rng, nprng, 0) } : Built(n, c)
    /\ run' = [kind |-> "construct"]
    /\ pc' = "done"
    /\ fault' = "none"
    /\ sent' = <<>>
    /\ ops' = ops + 1
    /\ UNCHANGED <<analyzerVars, metrics, twin>>

----------------------------------------------------------------------------
(* quick_validation.neural_network_simulation *)

\* for agent_group in range(25)
AgentGroups == 25

abs(x) == IF x < 0 THEN -x ELSE x

RECURSIVE normal_vector(_, _, _, _, _)
\* np.random.normal(loc, scale, n): n successive draws, and the state after them
normal_vector(n, loc, scale, nr, acc) ==
    IF n = 0 THEN [row |-> acc, nprng |-> nr]
    ELSE normal_vector(n - 1, loc, scale, nprng_next(nr),
                       Append(acc, normal(loc, scale, nprng_next(nr))))

\* np.mean(success_weights), in 1/10000
success_prediction_of(success_weights) == SumSeq(success_weights) \div Len(success_weights)

\* the feature vector of one message, milli; d holds the states of `random`
\* after its draws
nn_features(d) ==
    << uniform(0, 1000, d[1]),          \* cross_region probability
       uniform(300, 1000, d[2]),        \* qos_priority
       uniform(300, 900, d[3]),         \* network_load
       uniform(100, 1000, d[4]),        \* normalized message size
       uniform(0, 300, d[5]) >>         \* congestion

\* np.dot(features, latency_weights[:5]), micro
nn_latency_prediction(features, latency_weights) ==
    SumSeq([i \in 1 .. 5 |-> features[i] * latency_weights[i]])

\* 3-7 seconds across regions, 0.1-2 seconds otherwise, in centi-ms
nn_base_latency(features, raw) ==
    IF features[1] > 500 THEN uniform(300000, 700000, raw)
    ELSE uniform(10000, 200000, raw)

\* final_latency = base_latency * (0.8 + abs(latency_prediction) * 0.4)
nn_final_latency(base, latency_prediction) ==
    (base * (800 + (abs(latency_prediction) * 4) \div 10000)) \div 1000

\* random.random() < min(0.9999, success_prediction), the draw in hundredths
nn_success(raw, success_prediction) == raw * 100 < min(9999, success_prediction)

\* one message from the states d of `random` after its seven draws
nn_message(d, latency_weights, success_prediction) ==
    [ latency |-> nn_final_latency(nn_base_latency(nn_features(d), d[6]),
                     nn_latency_prediction(nn_features(d), latency_weights)),
      success |-> nn_success(d[7], success_prediction),
      rng |-> d[7] ]

\* the tallies with the message m added
nn_tallied(acc, m) ==
    [ latencies |-> Append(acc.latencies, m.latency),
      successes |-> IF m.success THEN acc.successes + 1 ELSE acc.successes,
      total_messages |-> acc.total_messages + 1,
      rng |-> m.rng ]

RECURSIVE nn_round(_, _, _, _)
\* k agent groups of one round, from the tallies acc
nn_round(k, latency_weights, success_prediction, acc) ==
    IF k = 0 THEN acc
    ELSE nn_round(k - 1, latency_weights, success_prediction,
                  nn_tallied(acc, nn_message(draw_states(acc.rng, 7), latency_weights,
                                             success_prediction)))

\* the locals of neural_network_simulation before its loop, with the weights lw
\* and sw drawn
NeuralNetworkStarted(lw, sw) ==
    /\ run' = [ kind |-> "nnsim",
                round_num |-> 0,
                latency_weights |-> lw.row,
                success_weights |-> sw.row,
                latencies |-> <<>>,
                successes |-> 0,
                total_messages |-> 0 ]
    /\ nprng' = sw.nprng

\* the success weights are drawn after the latency weights lw
NeuralNetworkWeights(lw) ==
    NeuralNetworkStarted(lw, normal_vector(5, 9500, 500, lw.nprng, <<>>))

\* neural_network_simulation up to its loop: the two weight vectors
StartNeuralNetworkSimulation ==
    /\ MayStart
    /\ NeuralNetworkWeights(normal_vector(10, 0, 100, nprng, <<>>))
    /\ pc' = "nnsim"
    /\ fault' = "none"
    /\ ops' = ops + 1
    /\ sent' = <<>>
    /\ UNCHANGED <<analyzerVars, simVars, rng, metrics, twin>>

\* the locals after one round with the tallies t
NeuralNetworkTally(t) ==
    /\ run' = [run EXCEPT !.round_num = @ + 1,
                          !.latencies = t.latencies,
                          !.successes = t.successes,
                          !.total_messages = t.total_messages]
    /\ rng' = t.rng

\* one round of neural_network_simulation: a message for each agent group
NeuralNetworkRound ==
    /\ pc = "nnsim"
    /\ run.round_num < SimulationRounds
    /\ NeuralNetworkTally(
          nn_round(AgentGroups, run.latency_weights,
                   success_prediction_of(run.success_weights),
                   [ latencies |-> run.latencies, successes |-> run.successes,
                     total_messages |-> run.total_messages, rng |-> rng ]))
    /\ UNCHANGED <<analyzerVars, simVars, nprng, pc, sent, metrics, fault, ops, twin>>

\* after the loop of neural_network_simulation: the result
NeuralNetworkFinish ==
    /\ pc = "nnsim"
    /\ run.round_num >= SimulationRounds
    /\ metrics' =
         [ success_rate |-> percent(run.successes, run.total_messages),
           p95_latency_ms |-> percentile(run.latencies, 95),
           median_latency_ms |-> median(run.latencies),
           throughput_msg_per_sec |-> (run.total_messages * 15000) \div 60 ]
    /\ pc' = "done"
    /\ UNCHANGED <<analyzerVars, simVars, rng, nprng, run, sent, fault, ops, twin>>

Next ==
    \/ SimulateMessage
    \/ StartLargeScale
    \/ LargeScaleMessage
    \/ LargeScaleNextSecond
    \/ LargeScaleFinish
    \/ StartBuildSystem
    \/ BuildTrial
    \/ BuildFinish
    \/ StartQuickBuild
    \/ QuickBuildTrial
    \/ QuickBuildFinish
    \/ StartNeuralNetworkSimulation
    \/ NeuralNetworkRound
    \/ NeuralNetworkFinish
    \/ ConstructSimulator

Spec == Init /\ [][Next]_vars

----------------------------------------------------------------------------
(* _calculate_message_latency as a function of its inputs *)

\* the inputs of one call: the two regions, the size, the QoS class
LatencyInputs ==
    [ kind : {"latency"},
      source_region : Range(Regions),
      dest_region : Range(Regions),
      message_size_kb : Payloads,
      qos_class : Range(QoSClass) ]

\* a simulator, the inputs of the call, and the two generators in any of the
\* states the call can find them in: every noise draw is covered
InitLatency ==
    /\ AnalyzerFresh
    /\ \E c \in {construct(MaxAgents, NumRouters, Regions, 0, 0, 0)} :
          /\ num_agents = MaxAgents
          /\ num_routers = NumRouters
          /\ regions = Regions
          /\ agents = c.agents
          /\ routers = c.routers
          /\ metrics_history = <<>>
          /\ simulation_time = 0
          /\ nn_weights = c.nn_weights
    /\ rng \in 0 .. MaxSeed
    /\ nprng \in 0 .. RngModulus - 1
    /\ run \in LatencyInputs
    /\ pc = "idle"
    /\ sent = <<>>
    /\ metrics = NoMetrics
    /\ fault = "none"
    /\ ops = 0
    /\ twin = NoTwin

\* the caller of _calculate_message_latency after it returned lat
LatencyReturned(lat) ==
    /\ sent' = <<lat>>
    /\ rng' = lat.rng
    /\ nprng' = lat.nprng

\* a call of _calculate_message_latency
CalculateMessageLatency ==
    /\ pc = "idle"
    /\ LatencyReturned(
          calculate_message_latency(run.source_region, run.dest_region,
              run.message_size_kb, run.qos_class, nn_weights.latency_prediction,
              simulation_time, Len(agents), rng, nprng))
    /\ pc' = "done"
    /\ ops' = ops + 1
    /\ UNCHANGED <<analyzerVars, simVars, run, metrics, fault, twin>>

SpecLatency == InitLatency /\ [][CalculateMessageLatency]_vars

----------------------------------------------------------------------------
(* Two executions of the message simulation, side by side *)

\* wall-clock times at which a population can be built
Clock == {0, 1}

\* the second execution: its simulator, its generators, and the (latency,
\* success) pairs the two executions have returned so far
TwinOf(c) ==
    [ self |-> [ agents |-> c.agents, routers |-> c.routers,
                 nn_weights |-> c.nn_weights, simulation_time |-> 0 ],
      rng |-> c.rng, nprng |-> c.nprng,
      fault |-> "none",
      first |-> <<>>, second |-> <<>> ]

\* both executions seed the generators alike and build the simulator with the
\* same configuration, each at its own wall-clock time
InitRepro ==
    /\ AnalyzerFresh
    /\ \E n \in 0 .. MaxAgents, seed \in 0 .. MaxSeed, npseed \in 0 .. MaxNpSeed,
          now1 \in Clock, now2 \in Clock :
          /\ Constructed(n, seed, npseed, now1)
          /\ twin = TwinOf(construct(n, NumRouters, Regions, seed, npseed, now2))
    /\ ProcessIdle

\* the returned pairs with the one of the call c, when it returned
Returned(results, c) ==
    IF c.outcome.fault # "none" THEN results
    ELSE Append(results, <<c.outcome.latency, c.outcome.success>>)

\* the second execution after its call c2, the first having made the call c1
TwinCall(c1, c2) ==
    twin' = [ self |-> c2.self,
              rng |-> c2.outcome.rng, nprng |-> c2.outcome.nprng,
              fault |-> c2.outcome.fault,
              first |-> Returned(twin.first, c1),
              second |-> Returned(twin.second, c2) ]

\* the same call of _simulate_message_processing in both executions
ReproSimulateMessage ==
    /\ MayStart
    /\ \E message_type \in DirectTypes, payload \in Payloads :
          /\ DirectCall(simulate_message_processing(Self, rng, nprng, message_type, payload))
          /\ TwinCall(simulate_message_processing(Self, rng, nprng, message_type, payload),
                      simulate_message_processing(twin.self, twin.rng, twin.nprng,
                                                  message_type, payload))
          /\ run' = [kind |-> "message", message_type |-> message_type,
                     payload_size_kb |-> payload]
    /\ ops' = ops + 1
    /\ UNCHANGED <<analyzerVars, num_agents, num_routers, regions, metrics_history,
                   metrics>>

SpecRepro == InitRepro /\ [][ReproSimulateMessage]_vars

----------------------------------------------------------------------------
(* Claims about the integrity analyzer, checked under SpecAnalyzer *)

CanonicalTables ==
    /\ expected_opcodes = CanonicalOpcodes
    /\ iicp_headers = CanonicalHeaders
    /\ versions = CanonicalVersions

AllTrue(d) == \A k \in DOMAIN d : d[k]

\* C1: on the hardcoded tables calculate_integrity_score returns exactly
\* 100.0 (100000 milli-percent), with all 9 of 9 checks passed, and the issue
\* log stays empty.
C1_CanonicalScoreIs100 ==
    (CanonicalTables /\ integrity_score # -1) =>
        /\ integrity_score = 100000
        /\ len_map(message_consistency) + len_map(header_consistency)
             + len_map(version_compatibility) = 9
        /\ AllTrue(message_consistency)
        /\ AllTrue(header_consistency)
        /\ AllTrue(version_compatibility)
        /\ issues = <<>>

C1_Witness ==
    CanonicalTables /\ integrity_score = 100000 /\ calls >= 1 /\ issues = <<>>

\* the table is the canonical one with entry i's value replaced by the value of
\* another entry j
DuplicateEdit(opcodes) ==
    \E i, j \in DOMAIN CanonicalOpcodes :
        i # j /\ opcodes = [CanonicalOpcodes EXCEPT ![i] = CanonicalOpcodes[j]]

\* C2: on a table with a duplicated value the uniqueness check is false, and
\* the integrity score is strictly below the score of the canonical opcode
\* table (the other tables being the same).
C2_DuplicateLowersScore ==
    DuplicateEdit(expected_opcodes) =>
        /\ message_consistency # NoResult => ~ message_consistency.opcode_uniqueness
        /\ integrity_score # -1 =>
              integrity_score <
                calculate_integrity_score(CanonicalOpcodes, iicp_headers, versions).integrity_score

C2_Witness ==
    /\ DuplicateEdit(expected_opcodes)
    /\ integrity_score # -1
    /\ integrity_score < 100000
    /\ ~ message_consistency.opcode_uniqueness
    /\ iicp_headers = CanonicalHeaders /\ versions = CanonicalVersions

\* C7 as stated: completeness is true if and only if the set of opcode values
\* equals the range 0x01 .. 0x0E.
C7_CompletenessIsSetEquality ==
    message_consistency # NoResult =>
        (message_consistency.completeness <=> Range(expected_opcodes) = 1 .. 14)

\* C7 as amended: completeness is true if and only if no value of the range
\* 0x01 .. 0x0E is missing from the table (values outside the range do not
\* affect it); when it is false the logged issue lists every missing value.
C7_CompletenessIsNoGaps ==
    message_consistency # NoResult =>
        /\ message_consistency.completeness <=> (1 .. 14) \subseteq Range(expected_opcodes)
        /\ ~ message_consistency.completeness =>
              \E n \in DOMAIN issues :
                  /\ issues[n].kind = "missing"
                  /\ issues[n].opcodes = {v \in 1 .. 14 : v \notin Range(expected_opcodes)}

\* a table with a value outside the range and none missing is reported complete
C7_Witness ==
    /\ message_consistency # NoResult
    /\ message_consistency.completeness
    /\ Range(expected_opcodes) # 1 .. 14
    /\ ~ message_consistency.range_validity

----------------------------------------------------------------------------
(* A caller that means its message to have a QoS class *)

\* a call of _simulate_message_processing by a caller that wants a message of
\* class qos_class: the method takes a message type and a payload size, so the
\* class stays with the caller
SimulateMessageOfClass ==
    /\ MayStart
    /\ \E qos_class \in Range(QoSClass), message_type \in DirectTypes, payload \in Payloads :
          /\ DirectCall(simulate_message_processing(Self, rng, nprng, message_type, payload))
          /\ run' = [kind |-> "message", qos_class |-> qos_class,
                     message_type |-> message_type, payload_size_kb |-> payload]
    /\ ops' = ops + 1
    /\ UNCHANGED <<analyzerVars, num_agents, num_routers, regions, metrics_history,
                   metrics, twin>>

SpecGivenQoS == Init /\ [][SimulateMessageOfClass]_vars

----------------------------------------------------------------------------
(* Claims about the simulator *)

\* C3: every latency a message simulation returns is at least 10.0 ms
C3_LatencyFloor ==
    \A i \in DOMAIN sent : sent[i].latency >= 1000

\* the floor acted: the noisy latency was below 10.0 ms and 10.0 ms came back
C3_Witness ==
    /\ run.kind = "latency"
    /\ sent # <<>>
    /\ sent[1].final_latency + sent[1].noise < 1000
    /\ sent[1].latency = 1000

\* C4: a large-scale run emits floor(T / d) messages in each of its d seconds
\* and, when it completes, has simulated d * floor(T / d) messages
C4_TickExact ==
    (run.kind = "large" /\ run.duration_seconds > 0) =>
        /\ pc = "large" =>
              /\ run.emitted <= TargetTotal \div run.duration_seconds
              /\ run.total_messages =
                    run.second * (TargetTotal \div run.duration_seconds) + run.emitted
        /\ (pc = "large" /\ run.second >= run.duration_seconds) => run.emitted = 0
        /\ pc = "done" =>
              /\ run.total_messages =
                    run.duration_seconds * (TargetTotal \div run.duration_seconds)
              /\ Len(run.latencies) = run.total_messages

\* a completed run of several seconds whose duration does not divide the target
C4_Witness ==
    /\ run.kind = "large"
    /\ pc = "done"
    /\ run.duration_seconds > 1
    /\ run.total_messages # TargetTotal
    /\ run.total_messages = run.duration_seconds * (TargetTotal \div run.duration_seconds)

\* the number of builds of a run whose two stages both succeeded
BothStages(outcomes) ==
    Cardinality({i \in DOMAIN outcomes : outcomes[i][1] /\ outcomes[i][2]})

\* C5: a build run performs exactly the configured number of builds, records
\* one latency per build, counts a build as successful exactly when both of its
\* stages succeeded, and reports as errors the builds that were not successful
C5_BuildCounts ==
    (run.kind \in {"build", "quick"}) =>
        /\ Len(run.build_latencies) = Len(run.stage_outcomes)
        /\ Len(run.build_latencies) <= BuildTrials
        /\ run.successful_builds = BothStages(run.stage_outcomes)
        /\ pc = "done" =>
              /\ run.total_builds = BuildTrials
              /\ Len(run.build_latencies) = BuildTrials
              /\ metrics.error_count = BuildTrials - run.successful_builds

\* a completed build-pipeline run with a build of which exactly one stage failed
C5_Witness ==
    /\ run.kind = "build"
    /\ pc = "done"
    /\ \E i \in DOMAIN run.stage_outcomes :
          run.stage_outcomes[i][1] # run.stage_outcomes[i][2]
    /\ metrics.error_count > 0

\* C6: two executions with the same seeds, the same configuration and the same
\* calls return the same sequence of (latency, success) pairs
C6_Reproducible ==
    twin # NoTwin =>
        /\ twin.first = twin.second
        /\ twin.fault = fault

\* two calls returned in both executions, whose populations were built at
\* different wall-clock times
C6_Witness ==
    /\ twin # NoTwin
    /\ Len(twin.first) >= 2
    /\ Len(twin.second) >= 2
    /\ twin.self.agents # agents

\* C8: the source and the destination of a simulated message are two different
\* agents of the population
C8_DistinctEndpoints ==
    \A i \in DOMAIN sent :
        ("source" \in DOMAIN sent[i] /\ Len(agents) >= 2) =>
            /\ sent[i].source # sent[i].dest
            /\ sent[i].source \in Range(agents)
            /\ sent[i].dest \in Range(agents)

\* a message simulated on a population of exactly two agents
C8_Witness ==
    /\ Len(agents) = 2
    /\ sent # <<>>
    /\ "source" \in DOMAIN sent[1]
    /\ sent[1].source # sent[1].dest

\* C9: with fewer than two agents no message simulation returns, the fault of
\* the endpoint selection ends the run it occurs in, and no run of the
\* simulator completes, so none returns a metrics record
C9_TooFewAgentsFault ==
    (Len(agents) < 2 /\ run.kind \in {"message", "large", "build"}) =>
        /\ sent = <<>>
        /\ pc # "done"
        /\ run.kind = "message" => (pc = "faulted" /\ fault = "IndexError")
        /\ (run.kind = "build" /\ pc = "faulted") => fault = "IndexError"
        /\ (run.kind = "large" /\ pc = "faulted" /\ run.total_messages = 0
              /\ run.duration_seconds \in 1 .. TargetTotal) => fault = "IndexError"

\* a large-scale run on a single agent ended by the fault of the selection
C9_Witness ==
    /\ Len(agents) = 1
    /\ run.kind = "large"
    /\ pc = "faulted"
    /\ fault = "IndexError"
    /\ metrics = NoMetrics
    /\ ops = 1

\* C10: once a simulator is built, no step of a message simulation or of a
\* run changes one of its agents or routers
C10_PopulationUnchanged ==
    [][run'.kind # "construct" => (agents' = agents /\ routers' = routers)]_vars

\* a second operation completed on a population with routers
C10_Witness ==
    /\ ops >= 2
    /\ pc = "done"
    /\ run.kind \in {"message", "large", "build"}
    /\ Len(agents) >= 2
    /\ routers # <<>>

\* C11: the base latency of a simulated message is the one of the QoS class its
\* caller gave: 50 ms for realtime, 150 ms for interactive, 500 ms for batch,
\* before the cross-region multiplier
C11_BaseLatencyOfGivenQoS ==
    (run.kind = "message" /\ "qos_class" \in DOMAIN run /\ sent # <<>>) =>
        /\ sent[1].qos_class = run.qos_class
        /\ sent[1].source.region = sent[1].dest.region =>
              sent[1].base = (CASE run.qos_class = "realtime" -> 5000
                                [] run.qos_class = "interactive" -> 15000
                                [] run.qos_class = "batch" -> 50000)

\* C12: the failure threshold of every simulated message, the failure scoring
\* output times 0.01, is at most 0.01: the scoring output (micro) is at most 1.0
C12_FailureThresholdAtMostOnePercent ==
    \A i \in DOMAIN sent :
        "failure_probability" \in DOMAIN sent[i] =>
            sent[i].failure_probability <= 1000000

\* the tallies of a large-scale run are those of run
Tallied(r) == r.kind = "large" /\ "latencies" \in DOMAIN r

\* C13: in a large-scale run the number of latency samples equals
\* total_messages and successful_messages + error_count after every message,
\* and a message adds one to exactly one of the two tallies
C13_TalliesAgree ==
    [][ /\ Tallied(run') =>
              /\ Len(run'.latencies) = run'.total_messages
              /\ run'.total_messages = run'.successful_messages + run'.error_count
        /\ (pc = "large" /\ Tallied(run') /\ run'.total_messages # run.total_messages) =>
              /\ run'.total_messages = run.total_messages + 1
              /\ \/ /\ run'.successful_messages = run.successful_messages + 1
                    /\ run'.error_count = run.error_count
                 \/ /\ run'.successful_messages = run.successful_messages
                    /\ run'.error_count = run.error_count + 1 ]_vars

\* a large-scale run in which both tallies have counted a message
C13_Witness ==
    /\ Tallied(run)
    /\ run.successful_messages > 0
    /\ run.error_count > 0
    /\ Len(run.latencies) = run.successful_messages + run.error_count

\* C14: with two agents or more a large-scale run returns a metrics record
\* exactly for the durations from 1 to the target; for any other duration it
\* simulates no message and ends in a division by zero
C14_MetricsIffDurationInRange ==
    (Len(agents) >= 2 /\ run.kind = "large") =>
        IF run.duration_seconds \in 1 .. TargetTotal
        THEN /\ pc \in {"large", "done"}
             /\ fault = "none"
             /\ pc = "done" =>
                   /\ "latency_ms" \in DOMAIN metrics
                   /\ run.total_messages > 0
                   /\ metrics.error_count = run.error_count
             /\ (pc = "large" /\ run.second >= run.duration_seconds) =>
                   run.total_messages > 0
        ELSE /\ pc \in {"large", "faulted"}
             /\ run.total_messages = 0
             /\ sent = <<>>
             /\ pc = "faulted" => fault = "ZeroDivisionError"
             /\ pc = "large" => fault = "none"

\* a run longer than the target, ended by the division after its empty seconds
C14_Witness ==
    /\ Len(agents) >= 2
    /\ run.kind = "large"
    /\ run.duration_seconds > TargetTotal
    /\ pc = "faulted"
    /\ fault = "ZeroDivisionError"
    /\ run.second = run.duration_seconds

----------------------------------------------------------------------------
(* Further claims about the integrity analyzer, checked under SpecAnalyzer *)

\* the number of checks of a returned map that passed
Passed(d) == Cardinality({k \in DOMAIN d : d[k]})

\* C15: type_consistency, required_coverage, backward_compatibility and
\* forward_compatibility are true whatever the tables hold, so at least 4 of
\* the 9 checks pass and the score is at least 4/9 * 100
C15_FourChecksAlwaysPass ==
    /\ header_consistency # NoResult =>
          header_consistency.type_consistency /\ header_consistency.required_coverage
    /\ version_compatibility # NoResult =>
          /\ version_compatibility.backward_compatibility
          /\ version_compatibility.forward_compatibility
    /\ integrity_score # -1 =>
          /\ Passed(message_consistency) + Passed(header_consistency)
                + Passed(version_compatibility) >= 4
          /\ 9 * integrity_score > 4 * 100000 - 9

\* a score computed on tables that fail every check that reads a table
C15_Witness ==
    /\ integrity_score # -1
    /\ Passed(message_consistency) = 0
    /\ Passed(header_consistency) = 2
    /\ Passed(version_compatibility) = 2
    /\ integrity_score = 44444

\* the issues one computation of the score logs on the tables
ScoreIssues ==
    analyze_message_consistency(expected_opcodes).issues
    \o analyze_header_field_consistency(iicp_headers).issues
    \o analyze_version_compatibility(versions).issues

\* C16: the issue log only grows: the log before a step is a prefix of the log
\* after it, a computation of the score appends the issues of the tables once
\* more and leaves a score already computed as it is, and on the hardcoded
\* tables the log stays empty
C16_IssueLogAppendOnly ==
    [][ /\ Len(issues') >= Len(issues)
        /\ SubSeq(issues', 1, Len(issues)) = issues
        /\ CalculateIntegrityScore =>
              /\ issues' = issues \o ScoreIssues
              /\ integrity_score # -1 => integrity_score' = integrity_score
        /\ CanonicalTables => issues' = <<>> ]_vars

\* the score computed twice on tables whose opcodes and headers log issues: the
\* log holds them twice
C16_Witness ==
    /\ calls = 2
    /\ integrity_score # -1
    /\ analyze_message_consistency(expected_opcodes).issues # <<>>
    /\ analyze_header_field_consistency(iicp_headers).issues # <<>>
    /\ issues = ScoreIssues \o ScoreIssues

====
